---- MODULE Spec2Model ----
(***************************************************************************)
(* Model of protectedRouter (src/server/trpc/routers/protected.ts): the    *)
(* Team / Project / API procedures and the membership filters they pass    *)
(* to the store.  The store tables are sets of rows; every procedure that  *)
(* makes one store call is one atomic action, and apiCreate, which makes   *)
(* two store calls separated by an await, is two actions.                  *)
(***************************************************************************)
EXTENDS Integers, Sequences, FiniteSets, TLC

\* ------------------------------------------------------------------ bounds
MaxTeams == 2
MaxProjects == 2
MaxApis == 2
MaxInflight == 1

\* ------------------------------------------------------- values and inputs
Users == {"u1", "u2"}

Roles == {"Owner", "Maintainer", "Member"}

ProjectVisibility == {"PUBLIC", "PRIVATE"}

Null == "null"

Undefined == "undefined"

TeamIds == 1..MaxTeams

ProjectIds == 1..MaxProjects

\* Strings are sequences of characters, so that `contains` is computed.
\* The name / description / visibility inputs of projectCreate and
\* projectUpdate: two inputs that differ in every field.
ProjectInputs ==
    {[name |-> <<"w", "e", "b">>, description |-> <<"d", "o", "c">>, visibility |-> "PRIVATE"],
     [name |-> <<"a", "p", "p">>, description |-> <<"t", "x", "t">>, visibility |-> "PUBLIC"]}

TeamNames == {<<"o", "p", "s">>}

\* An optional string is a set holding at most one string.
TeamDescriptions == {{}}

ApiNames == {{}, {<<"g", "e", "t">>}}

NameFilters == {{}, {<<"p", "p">>}, {<<"e">>}}

VisibilityFilters == {Undefined, "PUBLIC"}

VARIABLES team, teamMember, project, projectMember, api,
          nProjects, nApis, inflight, resp, projectCreator, teamCreator, fresh

vars == <<team, teamMember, project, projectMember, api,
          nProjects, nApis, inflight, resp, projectCreator, teamCreator, fresh>>

store == <<team, teamMember, project, projectMember, api, nProjects, nApis>>

ghosts == <<projectCreator, teamCreator, fresh>>

\* ------------------------------------------------------------ pure helpers
\* Substring test on two strings.
IsSubstring(s, sub) ==
    \E i \in 0..(Len(s) - Len(sub)) : SubSeq(s, i + 1, i + Len(sub)) = sub

\* Prisma `{ contains: x }` on an optional column: an undefined filter is
\* dropped, a NULL column never matches a given filter.
Contains(col, filter) ==
    filter = {} \/ \E s \in col, sub \in filter : IsSubstring(s, sub)

\* Prisma `{ field: x }`: an undefined filter is dropped.
Equals(v, x) == x = Undefined \/ v = x

\* String.prototype.toLowerCase on the ProjectVisibility values.
ToLowerCase(s) ==
    CASE s = "PUBLIC" -> "public"
      [] s = "PRIVATE" -> "private"
      [] OTHER -> s

\* Mutant of ProjectMembersSome: the userId condition is left out.
ProjectMembersSomeAnyUser(pm, id, u) ==
    \E m \in pm : m.projectId = id

\* members: { some: { userId } } on a Project row.
ProjectMembersSome(pm, id, u) ==
    \E m \in pm : m.projectId = id /\ m.userId = u

\* Mutant of ProjectMembersSomeOwner: the role condition is left out.
ProjectMembersSomeAnyRole(pm, id, u) ==
    \E m \in pm : m.projectId = id /\ m.userId = u

\* members: { some: { userId, role: Owner } } on a Project row.
ProjectMembersSomeOwner(pm, id, u) ==
    \E m \in pm : m.projectId = id /\ m.userId = u /\ m.role = "Owner"

\* members: { some: { userId } } on a Team row.
TeamMembersSome(tm, id, u) ==
    \E m \in tm : m.teamId = id /\ m.userId = u

\* Mutant of ProjectOwnerMember: the creator is given role Member.
ProjectOwnerMemberAsMember(u, id) ==
    {[userId |-> u, projectId |-> id, role |-> "Member"]}

\* members: { create: { userId, role: Owner } } nested in project.create.
ProjectOwnerMember(u, id) ==
    {[userId |-> u, projectId |-> id, role |-> "Owner"]}

\* members: { create: { userId, role: Owner } } nested in team.create.
TeamOwnerMember(u, id) ==
    {[userId |-> u, teamId |-> id, role |-> "Owner"]}

\* The Project.teamId relation: a Project row needs its Team row.
TeamExists(t, teamId) == \E r \in t : r.id = teamId

\* The Api.projectId relation: an Api row needs its Project row.
ProjectExists(p, projectId) == \E r \in p : r.id = projectId

\* Rows of a table that go with a deleted Project.
OnDeleteProject(rows, id) == {r \in rows : r.projectId # id}

\* ------------------------------------------------------------ store queries
\* project.findMany of projectList.
ProjectFindMany(p, pm, u, name, teamId, visibility) ==
    {r \in p : /\ Contains({r.name}, name)
               /\ r.teamId = teamId
               /\ Equals(r.visibility, visibility)
               /\ ProjectMembersSome(pm, r.id, u)}

\* project.findFirst of projectShow: the rows the where clause selects.
ProjectFindFirst(p, pm, u, id) ==
    {r \in p : r.id = id /\ ProjectMembersSome(pm, r.id, u)}

\* The where clause shared by project.update and project.delete.
ProjectWhereOwner(p, pm, u, id) ==
    {r \in p : r.id = id /\ ProjectMembersSomeOwner(pm, r.id, u)}

\* team.findMany of teamList.
TeamFindMany(t, tm, u) ==
    {r \in t : TeamMembersSome(tm, r.id, u)}

\* team.findFirst of teamShow.
TeamFindFirst(t, tm, u, id) ==
    {r \in t : r.id = id /\ TeamMembersSome(tm, r.id, u)}

\* api.findMany of apiList.
ApiFindMany(a, name, projectId) ==
    {r \in a : Contains(r.name, name) /\ r.projectId = projectId}

\* projectMember.findFirst of apiCreate: without orderBy the store may
\* return any of the caller's rows.
ProjectMemberFindFirst(pm, u) ==
    {m \in pm : m.userId = u}

\* The role test of apiCreate.
CanCreateApi(role) == role \in {"Owner", "Maintainer"}

\* ------------------------------------------------------------------- Init
\* The store is persistent and outlives the router: it starts with one Team
\* and one Project owned by u1, on which u2 holds any role or none.
SeedRoles == Roles \cup {Null}

SeedMember(u, key, id, role) ==
    IF role = Null THEN {}
    ELSE IF key = "teamId" THEN {[userId |-> u, teamId |-> id, role |-> role]}
    ELSE {[userId |-> u, projectId |-> id, role |-> role]}

Init ==
    /\ team = {[id |-> 1, name |-> <<"o", "p", "s">>, description |-> {}]}
    /\ \E r \in SeedRoles :
         teamMember = SeedMember("u1", "teamId", 1, "Owner") \cup SeedMember("u2", "teamId", 1, r)
    /\ project = {[id |-> 1, name |-> <<"w", "e", "b">>, description |-> <<"d", "o", "c">>,
                   teamId |-> 1, visibility |-> "PRIVATE"]}
    /\ \E r \in SeedRoles :
         projectMember = SeedMember("u1", "projectId", 1, "Owner") \cup SeedMember("u2", "projectId", 1, r)
    /\ api = {}
    /\ nProjects = 1
    /\ nApis = 0
    /\ inflight = {}
    /\ resp = [op |-> "none"]
    /\ projectCreator = <<>>
    /\ teamCreator = <<>>
    /\ fresh = <<>>

\* ---------------------------------------------------------------- actions
\* projectList: one findMany.
projectList(u, name, teamId, visibility) ==
    /\ resp' = [op |-> "projectList", user |-> u, outcome |-> "ok",
                input |-> [name |-> name, teamId |-> teamId, visibility |-> visibility],
                value |-> ProjectFindMany(project, projectMember, u, name, teamId, visibility)]
    /\ UNCHANGED <<store, inflight, ghosts>>

\* Mutant of projectCreateData: the description is taken from the name.
projectCreateDataNameTwice(id, name, description, teamId, visibility) ==
    [id |-> id, name |-> name, description |-> name,
     teamId |-> teamId, visibility |-> visibility]

\* The scalar fields of the data clause of project.create.
projectCreateData(id, name, description, teamId, visibility) ==
    [id |-> id, name |-> name, description |-> description,
     teamId |-> teamId, visibility |-> visibility]

\* projectCreate: one nested create (row and Owner member in one write).
projectCreate(u, name, description, teamId, visibility) ==
    /\ nProjects < MaxProjects
    /\ LET id == nProjects + 1
           row == projectCreateData(id, name, description, teamId, visibility)
       IN IF TeamExists(team, teamId)
          THEN /\ project' = project \cup {row}
               /\ projectMember' = projectMember \cup ProjectOwnerMember(u, id)
               /\ nProjects' = id
               /\ projectCreator' = (id :> u) @@ projectCreator
               /\ fresh' = (id :> [name |-> name, description |-> description,
                                    visibility |-> visibility]) @@ fresh
               /\ resp' = [op |-> "projectCreate", user |-> u, outcome |-> "ok",
                           input |-> [teamId |-> teamId], id |-> id]
          ELSE /\ resp' = [op |-> "projectCreate", user |-> u, outcome |-> "StoreFailure",
                           input |-> [teamId |-> teamId], id |-> 0]
               /\ UNCHANGED <<project, projectMember, nProjects, projectCreator, fresh>>
    /\ UNCHANGED <<team, teamMember, api, nApis, inflight, teamCreator>>

\* The outcome of projectShow.
projectShowOutcome(p, pm, u, id) ==
    IF ProjectFindFirst(p, pm, u, id) = {} THEN "Project not found" ELSE "ok"

\* The object projectShow returns for a found row.
projectShowValue(r) ==
    [r EXCEPT !.visibility = ToLowerCase(r.visibility)]

projectShow(u, id) ==
    /\ LET found == ProjectFindFirst(project, projectMember, u, id)
       IN resp' = [op |-> "projectShow", user |-> u,
                   outcome |-> projectShowOutcome(project, projectMember, u, id),
                   input |-> [id |-> id],
                   value |-> IF found = {} THEN Null
                             ELSE projectShowValue(CHOOSE r \in found : TRUE)]
    /\ UNCHANGED <<store, inflight, ghosts>>

\* The outcome of projectUpdate: project.update rejects when its where
\* clause selects no row.
projectUpdateOutcome(p, pm, u, id) ==
    IF ProjectWhereOwner(p, pm, u, id) = {} THEN "RecordNotFound" ELSE "ok"

\* The data clause of project.update applied to one row.
projectUpdateData(r, name, description, visibility) ==
    [r EXCEPT !.name = name, !.description = description, !.visibility = visibility]

projectUpdate(u, id, name, description, visibility) ==
    /\ LET hit == ProjectWhereOwner(project, projectMember, u, id)
       IN /\ project' = (project \ hit) \cup
                        {projectUpdateData(r, name, description, visibility) : r \in hit}
          /\ fresh' = IF hit = {} THEN fresh
                      ELSE [i \in DOMAIN fresh \ {id} |-> fresh[i]]
    /\ resp' = [op |-> "projectUpdate", user |-> u,
                outcome |-> projectUpdateOutcome(project, projectMember, u, id),
                input |-> [id |-> id, name |-> name, description |-> description,
                           visibility |-> visibility],
                value |-> Null]
    /\ UNCHANGED <<team, teamMember, projectMember, api, nProjects, nApis,
                   inflight, projectCreator, teamCreator>>

\* The outcome of projectDelete: project.delete rejects when its where
\* clause selects no row.
projectDeleteOutcome(p, pm, u, id) ==
    IF ProjectWhereOwner(p, pm, u, id) = {} THEN "RecordNotFound" ELSE "ok"

projectDelete(u, id) ==
    /\ LET hit == ProjectWhereOwner(project, projectMember, u, id)
       IN /\ project' = project \ hit
          /\ projectMember' = IF hit = {} THEN projectMember
                              ELSE OnDeleteProject(projectMember, id)
          /\ api' = IF hit = {} THEN api ELSE OnDeleteProject(api, id)
          /\ fresh' = IF hit = {} THEN fresh
                      ELSE [i \in DOMAIN fresh \ {id} |-> fresh[i]]
          /\ projectCreator' = IF hit = {} THEN projectCreator
                               ELSE [i \in DOMAIN projectCreator \ {id} |-> projectCreator[i]]
    /\ resp' = [op |-> "projectDelete", user |-> u,
                outcome |-> projectDeleteOutcome(project, projectMember, u, id),
                input |-> [id |-> id], value |-> Null]
    /\ UNCHANGED <<team, teamMember, nProjects, nApis, inflight, teamCreator>>

\* teamList: one findMany.
teamList(u) ==
    /\ resp' = [op |-> "teamList", user |-> u, outcome |-> "ok", input |-> Null,
                value |-> TeamFindMany(team, teamMember, u)]
    /\ UNCHANGED <<store, inflight, ghosts>>

\* teamCreate: one nested create (row and Owner member in one write).
teamCreate(u, name, description) ==
    /\ Cardinality(team) < MaxTeams
    /\ LET id == Cardinality(team) + 1
           row == [id |-> id, name |-> name, description |-> description]
       IN /\ team' = team \cup {row}
          /\ teamMember' = teamMember \cup TeamOwnerMember(u, id)
          /\ teamCreator' = (id :> u) @@ teamCreator
          /\ resp' = [op |-> "teamCreate", user |-> u, outcome |-> "ok",
                      input |-> Null, value |-> row]
    /\ UNCHANGED <<project, projectMember, api, nProjects, nApis, inflight,
                   projectCreator, fresh>>

\* The outcome of teamShow.
teamShowOutcome(t, tm, u, id) ==
    IF TeamFindFirst(t, tm, u, id) = {} THEN "Project not found" ELSE "ok"

teamShow(u, id) ==
    /\ LET found == TeamFindFirst(team, teamMember, u, id)
       IN resp' = [op |-> "teamShow", user |-> u,
                   outcome |-> teamShowOutcome(team, teamMember, u, id),
                   input |-> [id |-> id],
                   value |-> IF found = {} THEN Null ELSE CHOOSE r \in found : TRUE]
    /\ UNCHANGED <<store, inflight, ghosts>>

\* apiList: one findMany.
apiList(u, name, projectId) ==
    /\ resp' = [op |-> "apiList", user |-> u, outcome |-> "ok",
                input |-> [name |-> name, projectId |-> projectId],
                value |-> ApiFindMany(api, name, projectId)]
    /\ UNCHANGED <<store, inflight, ghosts>>

\* What apiCreate does with the row findFirst returned.
apiRoleOutcome(role) ==
    IF ~CanCreateApi(role) THEN "Permission denied" ELSE "pass"

\* The outcomes apiCreate's permission check can have for a caller.
apiCheckOutcomes(pm, u) ==
    IF ProjectMemberFindFirst(pm, u) = {} THEN {"Project not found"}
    ELSE {apiRoleOutcome(m.role) : m \in ProjectMemberFindFirst(pm, u)}

\* The final outcomes of apiCreate run without interleaving: the outcome of
\* the permission check, or of api.create when the check passes.
apiCreateOutcomes(p, pm, u, projectId) ==
    {IF o = "pass"
     THEN (IF ProjectExists(p, projectId) THEN "ok" ELSE "StoreFailure")
     ELSE o : o \in apiCheckOutcomes(pm, u)}

\* apiCreate up to its second await: findFirst and the two throws.
apiCreateCheck(u, name, projectId) ==
    /\ Cardinality(inflight) < MaxInflight
    /\ nApis + Cardinality(inflight) < MaxApis
    /\ \/ /\ ProjectMemberFindFirst(projectMember, u) = {}
          /\ inflight' = inflight
          /\ resp' = [op |-> "apiCreate", user |-> u, outcome |-> "Project not found",
                      input |-> [projectId |-> projectId], value |-> Null]
       \/ \E m \in ProjectMemberFindFirst(projectMember, u) :
            IF apiRoleOutcome(m.role) = "pass"
            THEN /\ inflight' = inflight \cup
                       {[user |-> u, name |-> name, projectId |-> projectId,
                         projectMember |-> m]}
                 /\ resp' = [op |-> "apiCreateCheck", user |-> u, outcome |-> "pass",
                             input |-> [projectId |-> projectId], value |-> Null]
            ELSE /\ inflight' = inflight
                 /\ resp' = [op |-> "apiCreate", user |-> u,
                             outcome |-> apiRoleOutcome(m.role),
                             input |-> [projectId |-> projectId], value |-> Null,
                             checked |-> m]
    /\ UNCHANGED <<store, ghosts>>

\* apiCreate from its second await: api.create with the input spread.
apiCreateWrite(q) ==
    /\ q \in inflight
    /\ inflight' = inflight \ {q}
    /\ IF ~ProjectExists(project, q.projectId)
       THEN /\ resp' = [op |-> "apiCreate", user |-> q.user, outcome |-> "StoreFailure",
                        input |-> [projectId |-> q.projectId], value |-> Null,
                        checked |-> q.projectMember]
            /\ UNCHANGED <<api, nApis>>
       ELSE LET row == [id |-> nApis + 1, name |-> q.name, projectId |-> q.projectId]
            IN /\ api' = api \cup {row}
               /\ nApis' = nApis + 1
               /\ resp' = [op |-> "apiCreate", user |-> q.user, outcome |-> "ok",
                           input |-> [projectId |-> q.projectId], value |-> row,
                           checked |-> q.projectMember]
    /\ UNCHANGED <<team, teamMember, project, projectMember, nProjects, ghosts>>

Next ==
    \/ \E u \in Users, n \in NameFilters, t \in TeamIds,
          v \in VisibilityFilters : projectList(u, n, t, v)
    \/ \E u \in Users, i \in ProjectInputs, t \in TeamIds :
          projectCreate(u, i.name, i.description, t, i.visibility)
    \/ \E u \in Users, id \in ProjectIds : projectShow(u, id)
    \/ \E u \in Users, id \in ProjectIds, i \in ProjectInputs :
          projectUpdate(u, id, i.name, i.description, i.visibility)
    \/ \E u \in Users, id \in ProjectIds : projectDelete(u, id)
    \/ \E u \in Users : teamList(u)
    \/ \E u \in Users, n \in TeamNames, d \in TeamDescriptions : teamCreate(u, n, d)
    \/ \E u \in Users, id \in TeamIds : teamShow(u, id)
    \/ \E u \in Users, n \in NameFilters, p \in ProjectIds : apiList(u, n, p)
    \/ \E u \in Users, n \in ApiNames, p \in ProjectIds : apiCreateCheck(u, n, p)
    \/ \E q \in inflight : apiCreateWrite(q)

Spec == Init /\ [][Next]_vars

\* The scoped reads, with the procedures that add and remove what they read.
NextRead ==
    \/ \E u \in Users, n \in NameFilters, t \in TeamIds,
          v \in VisibilityFilters : projectList(u, n, t, v)
    \/ \E u \in Users :
          projectCreate(u, <<"a", "p", "p">>, <<"t", "x", "t">>, 1, "PUBLIC")
    \/ \E u \in Users, id \in ProjectIds : projectShow(u, id)
    \/ \E u \in Users, id \in ProjectIds : projectDelete(u, id)
    \/ \E u \in Users : teamList(u)
    \/ \E u \in Users, n \in TeamNames, d \in TeamDescriptions : teamCreate(u, n, d)
    \/ \E u \in Users, id \in TeamIds : teamShow(u, id)

SpecRead == Init /\ [][NextRead]_vars

\* The procedures that add and remove Teams, Projects and memberships.
NextCreate ==
    \/ \E u \in Users, t \in TeamIds :
          projectCreate(u, <<"a", "p", "p">>, <<"t", "x", "t">>, t, "PUBLIC")
    \/ \E u \in Users, id \in ProjectIds : projectDelete(u, id)
    \/ \E u \in Users, n \in TeamNames, d \in TeamDescriptions : teamCreate(u, n, d)

SpecCreate == Init /\ [][NextCreate]_vars

\* The Project procedures on the Projects of one Team.
NextProject ==
    \/ \E u \in Users, i \in ProjectInputs :
          projectCreate(u, i.name, i.description, 1, i.visibility)
    \/ \E u \in Users, id \in ProjectIds : projectShow(u, id)
    \/ \E u \in Users, id \in ProjectIds, i \in ProjectInputs :
          projectUpdate(u, id, i.name, i.description, i.visibility)
    \/ \E u \in Users, id \in ProjectIds : projectDelete(u, id)

SpecProject == Init /\ [][NextProject]_vars

\* The API procedures, with the Project procedures that add and remove the
\* Projects and memberships they depend on.
NextApi ==
    \/ \E u \in Users, n \in NameFilters, p \in ProjectIds : apiList(u, n, p)
    \/ \E u \in Users, n \in ApiNames, p \in ProjectIds : apiCreateCheck(u, n, p)
    \/ \E q \in inflight : apiCreateWrite(q)
    \/ \E u \in Users :
          projectCreate(u, <<"a", "p", "p">>, <<"t", "x", "t">>, 1, "PUBLIC")
    \/ \E u \in Users, id \in ProjectIds : projectDelete(u, id)

SpecApi == Init /\ [][NextApi]_vars

\* The guarded procedures, with projectCreate to add Projects.
NextGuarded ==
    \/ \E u \in Users, id \in ProjectIds : projectShow(u, id)
    \/ \E u \in Users, id \in TeamIds : teamShow(u, id)
    \/ \E u \in Users, id \in ProjectIds, i \in ProjectInputs :
          projectUpdate(u, id, i.name, i.description, i.visibility)
    \/ \E u \in Users, id \in ProjectIds : projectDelete(u, id)
    \/ \E u \in Users, n \in ApiNames, p \in ProjectIds : apiCreateCheck(u, n, p)
    \/ \E q \in inflight : apiCreateWrite(q)
    \/ \E u \in Users :
          projectCreate(u, <<"a", "p", "p">>, <<"t", "x", "t">>, 1, "PUBLIC")

SpecGuarded == Init /\ [][NextGuarded]_vars

\* ----------------------------------------------------------------- claims
\* The membership relation, read off the store tables directly.
HoldsProjectRole(u, id, roles) ==
    \E m \in projectMember : m.userId = u /\ m.projectId = id /\ m.role \in roles

HoldsTeamRole(u, id, roles) ==
    \E m \in teamMember : m.userId = u /\ m.teamId = id /\ m.role \in roles

\* The outcomes that tell the caller "not found".
NotFoundOrDenied == {"Project not found", "RecordNotFound"}

\* C1: projectShow, projectList, teamShow and teamList called by identity i
\* never return a Project or Team on which i holds no membership; a show of
\* such an entity ends in the not-found outcome.
C1_ScopedReads ==
    /\ resp.op = "projectShow" =>
         IF HoldsProjectRole(resp.user, resp.input.id, Roles)
         THEN resp.outcome = "ok" /\ resp.value.id = resp.input.id
         ELSE resp.outcome = "Project not found"
    /\ resp.op = "projectList" =>
         \A r \in resp.value : HoldsProjectRole(resp.user, r.id, Roles)
    /\ resp.op = "teamShow" =>
         IF HoldsTeamRole(resp.user, resp.input.id, Roles)
         THEN resp.outcome = "ok" /\ resp.value.id = resp.input.id
         ELSE resp.outcome = "Project not found"
    /\ resp.op = "teamList" =>
         \A r \in resp.value : HoldsTeamRole(resp.user, r.id, Roles)

\* A caller was refused a Project that exists and on which it has no
\* membership.
C1_Witness ==
    /\ resp.op = "projectShow"
    /\ resp.outcome = "Project not found"
    /\ \E r \in project : r.id = resp.input.id
    /\ ~HoldsProjectRole(resp.user, resp.input.id, Roles)

\* C2: every Team and Project made by teamCreate / projectCreate has exactly
\* one membership row of its creator, with role Owner, in every reachable
\* state, and no membership row is without its Team or Project.
C2_CreatorIsOwner ==
    /\ \A r \in project :
         r.id > 1 =>
           /\ r.id \in DOMAIN projectCreator
           /\ {m \in projectMember : m.projectId = r.id}
                = {[userId |-> projectCreator[r.id], projectId |-> r.id, role |-> "Owner"]}
    /\ \A r \in team :
         r.id > 1 =>
           /\ r.id \in DOMAIN teamCreator
           /\ {m \in teamMember : m.teamId = r.id}
                = {[userId |-> teamCreator[r.id], teamId |-> r.id, role |-> "Owner"]}
    /\ \A m \in projectMember : \E r \in project : r.id = m.projectId
    /\ \A m \in teamMember : \E r \in team : r.id = m.teamId

\* A Team and a Project made by the procedures exist.
C2_Witness ==
    /\ \E r \in project : r.id > 1
    /\ \E r \in team : r.id > 1

\* C3: projectUpdate and projectDelete take effect iff the caller holds
\* Owner on the Project; otherwise the outcome is not-found and projects,
\* memberships and APIs are unchanged.
C3_OwnerOnlyWrite ==
    [][/\ resp'.op = "projectUpdate" =>
            IF HoldsProjectRole(resp'.user, resp'.input.id, {"Owner"})
            THEN /\ resp'.outcome = "ok"
                 /\ \E r \in project' :
                      /\ r.id = resp'.input.id
                      /\ r.name = resp'.input.name
                      /\ r.description = resp'.input.description
                      /\ r.visibility = resp'.input.visibility
                 /\ projectMember' = projectMember
            ELSE /\ resp'.outcome \in NotFoundOrDenied
                 /\ project' = project
                 /\ projectMember' = projectMember
                 /\ api' = api
       /\ resp'.op = "projectDelete" =>
            IF HoldsProjectRole(resp'.user, resp'.input.id, {"Owner"})
            THEN /\ resp'.outcome = "ok"
                 /\ ~\E r \in project' : r.id = resp'.input.id
            ELSE /\ resp'.outcome \in NotFoundOrDenied
                 /\ project' = project
                 /\ projectMember' = projectMember
                 /\ api' = api]_vars

\* A Maintainer or Member of an existing Project was refused an update.
C3_Witness ==
    /\ resp.op = "projectUpdate"
    /\ resp.outcome \in NotFoundOrDenied
    /\ HoldsProjectRole(resp.user, resp.input.id, {"Maintainer", "Member"})

\* Letter case folded on the visibility values.
FoldCase(s) ==
    IF s \in {"PUBLIC", "public"} THEN "public"
    ELSE IF s \in {"PRIVATE", "private"} THEN "private"
    ELSE s

\* C8: projectShow by the creator of a Project, with no projectUpdate or
\* projectDelete since its projectCreate, returns the name, description and
\* (up to letter case) visibility given to projectCreate.
C8_CreateShowRoundTrip ==
    (/\ resp.op = "projectShow"
     /\ resp.input.id \in DOMAIN fresh
     /\ resp.user = projectCreator[resp.input.id])
    => /\ resp.outcome = "ok"
       /\ resp.value.name = fresh[resp.input.id].name
       /\ resp.value.description = fresh[resp.input.id].description
       /\ FoldCase(resp.value.visibility) = FoldCase(fresh[resp.input.id].visibility)

\* The creator has shown a Project it made and has not changed since.
C8_Witness ==
    /\ resp.op = "projectShow"
    /\ resp.outcome = "ok"
    /\ resp.input.id \in DOMAIN fresh
    /\ resp.user = projectCreator[resp.input.id]
    /\ resp.value.visibility = "public"

\* C10: projectCreate under Team T succeeds only for a caller holding Owner
\* on T.
C10_TeamOwnerCreates ==
    (resp.op = "projectCreate" /\ resp.outcome = "ok")
    => HoldsTeamRole(resp.user, resp.input.teamId, {"Owner"})

\* C4: apiCreate by a caller with no Project membership, or with only
\* Member memberships, is refused; by a caller holding Owner or Maintainer
\* on the target Project it succeeds, whatever else the caller holds.
C4_ApiCreateByRole ==
    resp.op = "apiCreate" =>
      /\ (~\E m \in projectMember : m.userId = resp.user)
           => resp.outcome \in {"Project not found", "Permission denied"}
      /\ ((\E m \in projectMember : m.userId = resp.user)
          /\ \A m \in projectMember : m.userId = resp.user => m.role = "Member")
           => resp.outcome \in {"Project not found", "Permission denied"}
      /\ HoldsProjectRole(resp.user, resp.input.projectId, {"Owner", "Maintainer"})
           => resp.outcome = "ok"

\* C5: apiCreate inserts an API row under Project P only for a caller that
\* holds Owner or Maintainer on P itself.
C5_ApiCreateScoped ==
    (resp.op = "apiCreate" /\ resp.outcome = "ok")
    => HoldsProjectRole(resp.user, resp.input.projectId, {"Owner", "Maintainer"})

\* C6: apiList returns only APIs that match the filter and whose Project
\* has a membership of the caller.
C6_ApiListScoped ==
    resp.op = "apiList" =>
      \A r \in resp.value :
        /\ r.projectId = resp.input.projectId
        /\ HoldsProjectRole(resp.user, r.projectId, Roles)

\* The Project table and a table of its dependants without Project id.
ProjectRemoved(p, id) == {r \in p : r.id # id}

TeamRemoved(t, id) == {r \in t : r.id # id}

DependantsRemoved(rows, id) == {r \in rows : r.projectId # id}

TeamDependantsRemoved(rows, id) == {r \in rows : r.teamId # id}

\* C7: when a guarded procedure is called on a target that exists but on
\* which the caller lacks the needed membership or role, its outcome is the
\* outcome the same call has when that target does not exist.
C7_DenialHidesExistence ==
    /\ (/\ resp.op = "projectShow"
        /\ \E r \in project : r.id = resp.input.id
        /\ ~HoldsProjectRole(resp.user, resp.input.id, Roles))
       => resp.outcome = projectShowOutcome(ProjectRemoved(project, resp.input.id),
                                            DependantsRemoved(projectMember, resp.input.id),
                                            resp.user, resp.input.id)
    /\ (/\ resp.op = "teamShow"
        /\ \E r \in team : r.id = resp.input.id
        /\ ~HoldsTeamRole(resp.user, resp.input.id, Roles))
       => resp.outcome = teamShowOutcome(TeamRemoved(team, resp.input.id),
                                         TeamDependantsRemoved(teamMember, resp.input.id),
                                         resp.user, resp.input.id)
    /\ (/\ resp.op = "projectUpdate"
        /\ \E r \in project : r.id = resp.input.id
        /\ ~HoldsProjectRole(resp.user, resp.input.id, {"Owner"}))
       => resp.outcome = projectUpdateOutcome(ProjectRemoved(project, resp.input.id),
                                              DependantsRemoved(projectMember, resp.input.id),
                                              resp.user, resp.input.id)
    /\ (/\ resp.op = "projectDelete"
        /\ \E r \in project : r.id = resp.input.id
        /\ ~HoldsProjectRole(resp.user, resp.input.id, {"Owner"}))
       => resp.outcome = projectDeleteOutcome(ProjectRemoved(project, resp.input.id),
                                              DependantsRemoved(projectMember, resp.input.id),
                                              resp.user, resp.input.id)
    /\ (/\ resp.op = "apiCreate"
        /\ \E r \in project : r.id = resp.input.projectId
        /\ ~HoldsProjectRole(resp.user, resp.input.projectId, {"Owner", "Maintainer"}))
       => resp.outcome \in apiCreateOutcomes(ProjectRemoved(project, resp.input.projectId),
                                             DependantsRemoved(projectMember, resp.input.projectId),
                                             resp.user, resp.input.projectId)

\* C9: an API row is written only while the membership row that passed the
\* permission check is still in the store.
C9_WriteUnderLiveCheck ==
    (resp.op = "apiCreate" /\ resp.outcome = "ok")
    => resp.checked \in projectMember

====
